---- MODULE Spec2Model ----
(***************************************************************************)
(* Content publication engine of the admin backend: the singleton content  *)
(* page (ContentPage model), its save / publish / read handlers            *)
(* (adminController, publicController) and the revalidation webhook.       *)
(***************************************************************************)
EXTENDS Integers, Sequences, FiniteSets, TLC

(***************************************************************************)
(* Bounds of the model.                                                    *)
(***************************************************************************)
\* longest section sequence carried by a save request of SaveSpec
MaxSections == 2
\* longest section sequence carried by a save request of Spec
MaxDraftSections == 1
\* the clock runs over 0..MaxTime
MaxTime == 1
\* publish requests are started only while the stored version is below this
MaxVersion == 3
\* public reads of a post are sent only while its view count is below this
MaxViews == 1
\* posts are created only while fewer than this are stored or being created
MaxPosts == 2

(***************************************************************************)
(* Section payloads.  A section is a JSON object: a record whose fields    *)
(* may be missing.                                                         *)
(***************************************************************************)
Url1 == "https://example.com/1.jpg"
Url2 == "https://example.com/2.jpg"
AbsoluteUrls == {Url1, Url2}

TextFirst      == [type |-> "text", props |-> [html |-> "First section"]]
TextNoContent  == [type |-> "text", props |-> [html |-> ""]]
SingleImage1   == [type |-> "singleImage", props |-> [url |-> Url1]]
GalleryOne     == [type |-> "imageGallery",
                   props |-> [images |-> <<[url |-> Url2]>>, layout |-> "masonry"]]
GalleryEmpty   == [type |-> "imageGallery",
                   props |-> [images |-> <<>>, layout |-> "grid"]]
GalleryNoImages == [type |-> "imageGallery", props |-> [layout |-> "grid"]]
GalleryNoProps == [type |-> "imageGallery"]
UnknownType    == [type |-> "video", props |-> [url |-> Url1]]

\* the section objects a request of SaveSpec may carry
SectionInputs ==
  {TextFirst, TextNoContent, SingleImage1, GalleryOne,
   GalleryEmpty, GalleryNoImages, GalleryNoProps, UnknownType}

\* the section objects a request of Spec may carry: one that is stored and
\* one that is refused
DraftSectionInputs == {TextFirst, GalleryEmpty}

SeoHome == [title |-> "Home Page", description |-> "Welcome to our website"]

SeqsUpTo(S, n) == UNION {[1..k -> S] : k \in 0..n}

\* request bodies of POST /admin/content-page: sections may be missing (not
\* an array), seo is optional
BodiesOver(S, n) ==
  {[sections |-> s] : s \in SeqsUpTo(S, n)}
    \cup {[sections |-> s, seo |-> SeoHome] : s \in SeqsUpTo(S, n)}
    \cup {[seo |-> SeoHome]}

Has(r, f) == f \in DOMAIN r

(***************************************************************************)
(* Structural rules of the section variants (SectionUnion).                *)
(***************************************************************************)
KnownTypes ==
  {"hero", "breadcrumb", "text", "singleImage", "imageGallery", "popularPosts"}

NonEmptyField(p, f) == Has(p, f) /\ p[f] # ""

Hero(p) == /\ Has(p, "imageUrl") /\ p.imageUrl \in AbsoluteUrls
           /\ Has(p, "title")

Breadcrumb(p) == Has(p, "items") /\ Len(p.items) >= 1

Text(p) == NonEmptyField(p, "html") \/ NonEmptyField(p, "markdown")

SingleImage(p) == Has(p, "url") /\ p.url \in AbsoluteUrls

ImageGallery(p) ==
  /\ Has(p, "images") /\ Len(p.images) >= 1
  /\ \A i \in 1..Len(p.images) : p.images[i].url \in AbsoluteUrls
  /\ Has(p, "layout") => p.layout \in {"grid", "masonry"}

PopularPosts(p) ==
  /\ Has(p, "postIds") /\ Len(p.postIds) >= 1
  /\ Has(p, "layout") => p.layout \in {"grid", "list"}

SectionUnion(s) ==
  /\ Has(s, "type") /\ Has(s, "props")
  /\ CASE s.type = "hero"         -> Hero(s.props)
       [] s.type = "breadcrumb"   -> Breadcrumb(s.props)
       [] s.type = "text"         -> Text(s.props)
       [] s.type = "singleImage"  -> SingleImage(s.props)
       [] s.type = "imageGallery" -> ImageGallery(s.props)
       [] s.type = "popularPosts" -> PopularPosts(s.props)
       [] OTHER                   -> FALSE

AllSectionsValid(secs) == \A i \in 1..Len(secs) : SectionUnion(secs[i])

(***************************************************************************)
(* State.                                                                  *)
(***************************************************************************)
VARIABLES
  docs,        \* the ContentPage collection: {} or the one document of slug 'content'
  now,         \* Date.now()
  webhookUrl,  \* process.env.REVALIDATE_WEBHOOK_URL is set
  http,        \* the save / read exchange: the request being handled, or the
               \* last response sent
  pub,         \* the publish requests: position in publishContentPage and locals
  snapshot,    \* history: the content committed by the last publish write, {} if none
  pubRun,      \* history: publish writes since the last save write
  posts,       \* the Post collection
  reqs         \* the post requests: the request being handled and the
               \* handler's position in it, or the response sent

vars == <<docs, now, webhookUrl, http, pub, snapshot, pubRun, posts, reqs>>

\* the content-page state and the post state
pageVars == <<docs, webhookUrl, http, pub, snapshot, pubRun>>
postVars == <<posts, reqs>>

\* the only element of a singleton set
The(S) == CHOOSE x \in S : TRUE

(***************************************************************************)
(* Store primitives (Mongoose on the ContentPage collection).              *)
(***************************************************************************)
\* an update document without operators is applied as $set: the listed
\* paths are overwritten, every other path of the document is kept
Set(doc, upd) ==
  [k \in DOMAIN doc \cup DOMAIN upd |-> IF k \in DOMAIN upd THEN upd[k] ELSE doc[k]]

Drop(doc, f) == [k \in DOMAIN doc \ {f} |-> doc[k]]

\* ContentPage.findOne({ slug: 'content' })
findOne(coll) == {d \in coll : d.slug = "content"}

\* ContentPage.findPublished()
findPublished(coll) == {d \in coll : d.status = "published" /\ d.slug = "content"}

\* new Date(t).toISOString() and its inverse new Date(s).getTime()
toISOString(t) == [iso |-> t]
getTime(s) == s.iso

(***************************************************************************)
(* Responses.                                                              *)
(***************************************************************************)
Ok(msg, d) == [status |-> 200, success |-> TRUE, message |-> msg, data |-> d]
OkData(d) == [status |-> 200, success |-> TRUE, data |-> d]
Fail(code, msg) == [status |-> code, success |-> FALSE, message |-> msg]
\* next(error): the error leaves the handler for the error middleware
NextError(name) == [status |-> 500, success |-> FALSE, error |-> name]

(***************************************************************************)
(* saveContentPage                                                         *)
(***************************************************************************)
\* the loop over the submitted sections: "ok", "gallery" (the 400 answer) or
\* "TypeError" (section.props is undefined when .images is read)
RECURSIVE ValidateSections(_, _)
ValidateSections(sections, i) ==
  IF i > Len(sections) THEN "ok"
  ELSE LET section == sections[i] IN
       IF Has(section, "type") /\ section.type = "imageGallery"
       THEN IF ~Has(section, "props") THEN "TypeError"
            ELSE IF ~Has(section.props, "images") \/ Len(section.props.images) = 0
                 THEN "gallery"
                 ELSE ValidateSections(sections, i + 1)
       ELSE ValidateSections(sections, i + 1)

\* mutant: the sections are stored in reverse order
contentPageDataReversed(body) ==
  [slug |-> "content", status |-> "draft",
   sections |-> [i \in 1..Len(body.sections) |->
                   body.sections[Len(body.sections) + 1 - i]],
   version |-> 1]

\* contentPageData without the seo key
contentPageData(body) ==
  [slug |-> "content", status |-> "draft", sections |-> body.sections, version |-> 1]

\* the documents findOneAndUpdate(..., { upsert: true, new: true }) can leave.
\* With seo undefined in the update the key is either dropped from the update
\* (the stored seo is kept) or written as null, depending on the Mongoose
\* major version.
SaveResults(coll, body) ==
  LET data == contentPageData(body) IN
  IF Has(body, "seo")
  THEN IF findOne(coll) = {}
       THEN {Set(data, [seo |-> body.seo])}
       ELSE {Set(The(findOne(coll)), Set(data, [seo |-> body.seo]))}
  ELSE IF findOne(coll) = {}
       THEN {data}
       ELSE {Set(The(findOne(coll)), data),
             Drop(Set(The(findOne(coll)), data), "seo")}

\* POST /admin/content-page arrives
ReceiveSave(body) ==
  /\ http.phase # "request"
  /\ http' = [phase |-> "request", body |-> body]
  /\ UNCHANGED <<docs, now, webhookUrl, pub, snapshot, pubRun>>

Answer(op, resp) == http' = [phase |-> "response", op |-> op, resp |-> resp]

SaveAnswer(resp) == Answer("save", resp)

saveContentPage ==
  /\ http.phase = "request"
  /\ LET body == http.body IN
     IF ~Has(body, "sections")
     THEN /\ SaveAnswer(Fail(400, "Sections must be an array"))
          /\ UNCHANGED <<docs, now, webhookUrl, pub, snapshot, pubRun>>
     ELSE IF ValidateSections(body.sections, 1) = "gallery"
     THEN /\ SaveAnswer(Fail(400, "Gallery must have at least one image"))
          /\ UNCHANGED <<docs, now, webhookUrl, pub, snapshot, pubRun>>
     ELSE IF ValidateSections(body.sections, 1) = "TypeError"
     THEN /\ SaveAnswer(NextError("TypeError"))
          /\ UNCHANGED <<docs, now, webhookUrl, pub, snapshot, pubRun>>
     ELSE \E contentPage \in SaveResults(docs, body) :
            /\ docs' = {contentPage}
            /\ SaveAnswer(Ok("Content page saved", contentPage))
            /\ pub' = [r \in DOMAIN pub |-> [pub[r] EXCEPT !.untouched = FALSE]]
            /\ pubRun' = 0
            /\ UNCHANGED <<now, webhookUrl, snapshot>>

(***************************************************************************)
(* getContentPage, getPublicContentPage                                    *)
(***************************************************************************)
getContentPageResponse(coll) ==
  IF findOne(coll) = {} THEN Fail(404, "Content page not found")
  ELSE OkData(The(findOne(coll)))

\* GET /admin/content-page, answered between two save exchanges
getContentPage ==
  /\ http.phase # "request"
  /\ Answer("get", getContentPageResponse(docs))
  /\ UNCHANGED <<docs, now, webhookUrl, pub, snapshot, pubRun>>

\* query is the set of values of ?version= (empty when omitted)
getPublicContentPageResponse(coll, query) ==
  IF ~(query \subseteq {"published"}) THEN Fail(400, "Invalid request")
  ELSE IF findPublished(coll) = {} THEN Fail(404, "Content page not found")
  ELSE OkData(The(findPublished(coll)))

getPublicContentPage(query) ==
  /\ http.phase # "request"
  /\ Answer("public", getPublicContentPageResponse(docs, query))
  /\ UNCHANGED <<docs, now, webhookUrl, pub, snapshot, pubRun>>

(***************************************************************************)
(* publishContentPage, one step per await                                  *)
(***************************************************************************)
IdlePublish ==
  [pc |-> "idle", startedAt |-> 0, contentPage |-> {}, publishedData |-> {},
   fetchCalls |-> 0, fetchResult |-> "none", writes |-> 0, res |-> {},
   untouched |-> FALSE]

\* mutant: the version is copied, not incremented
NextVersionNoIncrement(contentPage) ==
  IF Has(contentPage, "version") /\ contentPage.version # 0
  THEN contentPage.version ELSE 1

\* (contentPage.version || 0) + 1
NextVersion(contentPage) ==
  (IF Has(contentPage, "version") /\ contentPage.version # 0
   THEN contentPage.version ELSE 0) + 1

\* mutant: the snapshot is built without the draft's sections
PublishedDataEmptySections(contentPage, t) ==
  Set(contentPage, [status |-> "published", publishedAt |-> toISOString(t),
                    version |-> NextVersion(contentPage), sections |-> <<>>])

\* { ...contentPage.toObject(), status, publishedAt, version }
PublishedData(contentPage, t) ==
  Set(contentPage, [status |-> "published", publishedAt |-> toISOString(t),
                    version |-> NextVersion(contentPage)])

\* what the store holds after findOneAndUpdate({ slug: 'content' }, publishedData)
PublishWrite(coll, publishedData) ==
  IF findOne(coll) = {} THEN coll
  ELSE {Set(The(findOne(coll)), publishedData)}

\* the content of a document that a public reader is shown
Content(doc) ==
  [sections |-> doc.sections, version |-> doc.version,
   seo |-> IF Has(doc, "seo") THEN {doc.seo} ELSE {}]

\* PATCH /admin/content-page/publish arrives
PublishStart(r) ==
  /\ pub[r].pc \in {"idle", "done"}
  /\ \A d \in docs : d.version < MaxVersion
  /\ pub' = [pub EXCEPT ![r] = [IdlePublish EXCEPT !.pc = "findOne", !.startedAt = now]]
  /\ UNCHANGED <<docs, now, webhookUrl, http, snapshot, pubRun>>

\* mutant: a missing page is created by the publish instead of answered 404
PublishFindOneUpserts(r) ==
  /\ pub[r].pc = "findOne"
  /\ LET found == IF findOne(docs) = {}
                  THEN {[slug |-> "content", status |-> "draft",
                         sections |-> <<>>, version |-> 0]}
                  ELSE findOne(docs) IN
       pub' = [pub EXCEPT ![r].pc = "update",
                          ![r].contentPage = found,
                          ![r].publishedData = {PublishedData(The(found), now)},
                          ![r].untouched = TRUE]
  /\ docs' = IF findOne(docs) = {}
             THEN {[slug |-> "content", status |-> "draft",
                    sections |-> <<>>, version |-> 0]}
             ELSE docs
  /\ UNCHANGED <<now, webhookUrl, http, snapshot, pubRun>>

\* findOne resolves; 404 when there is no page, else publishedData is built
\* and the update is issued
PublishFindOne(r) ==
  /\ pub[r].pc = "findOne"
  /\ IF findOne(docs) = {}
     THEN pub' = [pub EXCEPT ![r].pc = "done",
                             ![r].res = {Fail(404, "Content page not found")}]
     ELSE pub' = [pub EXCEPT ![r].pc = "update",
                             ![r].contentPage = findOne(docs),
                             ![r].publishedData =
                                {PublishedData(The(findOne(docs)), now)},
                             ![r].untouched = TRUE]
  /\ UNCHANGED <<docs, now, webhookUrl, http, snapshot, pubRun>>

\* the update executes in the store
PublishUpdate(r) ==
  /\ pub[r].pc = "update"
  /\ docs' = PublishWrite(docs, The(pub[r].publishedData))
  /\ pub' = [q \in DOMAIN pub |->
               IF q = r
               THEN [pub[q] EXCEPT !.pc = "updated", !.writes = @ + 1]
               ELSE [pub[q] EXCEPT !.untouched = FALSE]]
  /\ snapshot' = {Content(d) : d \in docs'}
  /\ pubRun' = IF pubRun < MaxVersion THEN pubRun + 1 ELSE pubRun
  /\ UNCHANGED <<now, webhookUrl, http>>

PublishRespond(p) ==
  [p EXCEPT !.pc = "done",
            !.res = {Ok("Content page published", The(p.publishedData))}]

\* after the update: the webhook is called when configured, else the
\* response is sent
PublishTrigger(r) ==
  /\ pub[r].pc = "updated"
  /\ IF webhookUrl
     THEN pub' = [pub EXCEPT ![r].pc = "fetch", ![r].fetchCalls = @ + 1]
     ELSE pub' = [pub EXCEPT ![r] = PublishRespond(pub[r])]
  /\ UNCHANGED <<docs, now, webhookUrl, http, snapshot, pubRun>>

\* outcomes of fetch: it resolves (2xx or not) or rejects (network error,
\* timeout)
FetchOutcomes == {"ok", "non2xx", "rejected"}

\* mutant: a rejected fetch is not caught and reaches next(error)
PublishFetchSettledThrows(r, outcome) ==
  /\ pub[r].pc = "fetch"
  /\ pub' = [pub EXCEPT ![r] =
               IF outcome = "rejected"
               THEN [pub[r] EXCEPT !.pc = "done", !.fetchResult = outcome,
                                   !.res = {NextError("FetchError")}]
               ELSE [PublishRespond(pub[r]) EXCEPT !.fetchResult = outcome]]
  /\ UNCHANGED <<docs, now, webhookUrl, http, snapshot, pubRun>>

\* mutant: a rejected fetch is retried once
PublishFetchSettledRetries(r, outcome) ==
  /\ pub[r].pc = "fetch"
  /\ pub' = [pub EXCEPT ![r] =
               IF outcome = "rejected" /\ pub[r].fetchCalls < 2
               THEN [pub[r] EXCEPT !.fetchCalls = @ + 1]
               ELSE [PublishRespond(pub[r]) EXCEPT !.fetchResult = outcome]]
  /\ UNCHANGED <<docs, now, webhookUrl, http, snapshot, pubRun>>

\* fetch settles; a rejection is caught and logged; the response is sent
PublishFetchSettled(r, outcome) ==
  /\ pub[r].pc = "fetch"
  /\ pub' = [pub EXCEPT ![r] = [PublishRespond(pub[r]) EXCEPT !.fetchResult = outcome]]
  /\ UNCHANGED <<docs, now, webhookUrl, http, snapshot, pubRun>>

Tick ==
  /\ now < MaxTime
  /\ now' = now + 1
  /\ UNCHANGED <<docs, webhookUrl, http, pub, snapshot, pubRun>>

(***************************************************************************)
(* Strings: the String methods used by the routes, the handlers and the    *)
(* Post schema.                                                            *)
(***************************************************************************)
Char(s, i) == SubSeq(s, i, i)

CharsOf(s) == {Char(s, i) : i \in 1..Len(s)}

\* String.prototype.trim
RECURSIVE trim(_)
trim(s) ==
  IF Len(s) > 0 /\ Char(s, 1) = " " THEN trim(SubSeq(s, 2, Len(s)))
  ELSE IF Len(s) > 0 /\ Char(s, Len(s)) = " " THEN trim(SubSeq(s, 1, Len(s) - 1))
  ELSE s

UpperLetters == "ABCDEFGHIJKLMNOPQRSTUVWXYZ"
LowerLetters == "abcdefghijklmnopqrstuvwxyz"
Digits == "0123456789"

LowerChar(ch) ==
  IF ch \in CharsOf(UpperLetters)
  THEN Char(LowerLetters, CHOOSE i \in 1..Len(UpperLetters) : Char(UpperLetters, i) = ch)
  ELSE ch

\* String.prototype.toLowerCase
RECURSIVE toLowerCase(_)
toLowerCase(s) ==
  IF s = "" THEN "" ELSE LowerChar(Char(s, 1)) \o toLowerCase(SubSeq(s, 2, Len(s)))

\* the characters of /^[a-z0-9-]+$/
SlugChars == CharsOf(LowerLetters) \cup CharsOf(Digits) \cup {"-"}

UrlSafe(s) == s # "" /\ \A i \in 1..Len(s) : Char(s, i) \in SlugChars

\* .replace(/[^a-z0-9 -]/g, '')
RECURSIVE StripUnsafe(_)
StripUnsafe(s) ==
  IF s = "" THEN ""
  ELSE (IF Char(s, 1) \in SlugChars \cup {" "} THEN Char(s, 1) ELSE "")
         \o StripUnsafe(SubSeq(s, 2, Len(s)))

\* .replace(/\s+/g, '-').replace(/-+/g, '-'): every run of spaces and
\* hyphens becomes one hyphen
RECURSIVE Hyphenate(_)
Hyphenate(s) ==
  IF s = "" THEN ""
  ELSE IF Char(s, 1) \in {" ", "-"}
       THEN IF Len(s) > 1 /\ Char(s, 2) \in {" ", "-"}
            THEN Hyphenate(SubSeq(s, 2, Len(s)))
            ELSE "-" \o Hyphenate(SubSeq(s, 2, Len(s)))
       ELSE Char(s, 1) \o Hyphenate(SubSeq(s, 2, Len(s)))

\* the slug generated from a title; .trim('-') ignores its argument and
\* strips white space, of which none is left
SlugFromTitle(title) == trim(Hyphenate(StripUnsafe(toLowerCase(title))))

(***************************************************************************)
(* Permission model: the role table and the route gate (protect, can).     *)
(***************************************************************************)
Roles == {"admin", "editor", "contributor"}

Actors == Roles \cup {"anonymous"}

Permissions(role) ==
  CASE role = "admin" ->
         {"post:create", "post:edit", "post:publish", "post:delete", "post:review",
          "post:schedule", "post:view", "user:create", "user:edit", "user:delete",
          "user:view", "media:upload", "media:delete", "media:view",
          "analytics:view", "settings:edit"}
    [] role = "editor" ->
         {"post:create", "post:edit", "post:publish", "post:delete", "post:review",
          "post:schedule", "post:view", "user:view", "media:upload", "media:view",
          "analytics:view"}
    [] role = "contributor" ->
         {"post:create", "post:edit", "post:view", "media:upload", "media:view"}
    [] OTHER -> {}

\* req.user.can(action)
can(role, action) == action \in Permissions(role)

\* protect: a request without a token is answered 401
NoToken == Fail(401, "Not authorized, no token")

\* can(action): a role without the action is answered 403, the message names
\* the action
Forbidden(action) ==
  Fail(403, "You don't have permission to perform this action: " \o action)

\* the answer of the middleware pair [protect, can(action)], {} when the
\* request passes
RouteGate(actor, action) ==
  IF actor = "anonymous" THEN {NoToken}
  ELSE IF ~can(actor, action) THEN {Forbidden(action)}
  ELSE {}

(***************************************************************************)
(* Post schema (models/Post.js).  A stored post is a record; publishedAt   *)
(* and scheduledAt are fields that may be missing.  Dates are stored as    *)
(* instants and travel in requests as ISO strings.                         *)
(***************************************************************************)
MinBodyLength == 50
MaxTitleLength == 200

PostStatuses == {"draft", "review", "scheduled", "published", "archived"}

\* the setters of the schema paths: trim, lowercase, the cast to Date
CastField(k, v) ==
  CASE k = "title" -> trim(v)
    [] k = "slug" -> trim(toLowerCase(v))
    [] k = "tags" -> [i \in 1..Len(v) |-> toLowerCase(trim(v[i]))]
    [] k \in {"publishedAt", "scheduledAt"} -> getTime(v)
    [] OTHER -> v

Cast(data) == [k \in DOMAIN data |-> CastField(k, data[k])]

\* the validators of one schema path
PathValid(doc, k) ==
  CASE k = "title" -> Has(doc, k) /\ doc.title # "" /\ Len(doc.title) <= MaxTitleLength
    [] k = "slug" -> Has(doc, k) /\ doc.slug # ""
    [] k = "body" -> Has(doc, k) /\ Len(doc.body) >= MinBodyLength
    [] k = "status" -> Has(doc, k) => doc.status \in PostStatuses
    [] k = "author" -> Has(doc, k)
    [] OTHER -> TRUE

SchemaValid(doc, paths) == \A k \in paths : PathValid(doc, k)

RequiredPaths == {"title", "slug", "body", "author"}

\* the document Post.create builds from postData: setters, defaults, then
\* the pre('save') hook that stamps publishedAt
NewPost(postData, id, t) ==
  LET doc == Set([_id |-> id, status |-> "draft", tags |-> <<>>, views |-> 0],
                 Cast(postData)) IN
  IF doc.status = "published" /\ ~Has(doc, "publishedAt")
  THEN Set(doc, [publishedAt |-> t])
  ELSE doc

\* Post.findById(id)
findById(coll, id) == {p \in coll : p._id = id}

\* Post.findOne({ slug })
findBySlug(coll, slug) == {p \in coll : p.slug = slug}

\* the unique index on slug refuses a write that would give the slug of
\* another post
DuplicateKey(coll, id, doc) ==
  Has(doc, "slug") /\ \E p \in coll : p._id # id /\ p.slug = doc.slug

\* a fresh ObjectId
NewId(coll) == CHOOSE i \in 1..(Cardinality(coll) + 1) : \A p \in coll : p._id # i

(***************************************************************************)
(* Post requests.                                                          *)
(***************************************************************************)
Created(msg, post) == [status |-> 201, success |-> TRUE, message |-> msg, data |-> {post}]
OkPost(msg, found) == [status |-> 200, success |-> TRUE, message |-> msg, data |-> found]
OkPostData(found) == [status |-> 200, success |-> TRUE, data |-> found]
OkPosts(found) ==
  [status |-> 200, success |-> TRUE, count |-> Cardinality(found), data |-> found]

Respond(c, res) ==
  reqs' = [reqs EXCEPT ![c] = [phase |-> "response", req |-> reqs[c].req, res |-> res]]

Handling(c, op) == reqs[c].phase = "request" /\ reqs[c].req.op = op

\* a request arrives on a connection that has none in flight
Receive(c, req) ==
  /\ reqs[c].phase \in {"idle", "response", "passed"}
  /\ reqs' = [reqs EXCEPT ![c] = [phase |-> "request", req |-> req]]
  /\ UNCHANGED <<posts, pageVars, now>>

\* the truthiness tests of the handlers on a field of req.body
Truthy(body, f) ==
  /\ Has(body, f)
  /\ body[f] # ""

(***************************************************************************)
(* createAdminPost (POST /admin/posts), one step per store call            *)
(***************************************************************************)
\* the validators of the route, in order; the first message is the answer
CreateAdminErrors(body) ==
  (IF ~Has(body, "title") \/ trim(body.title) = "" THEN <<"Title is required">> ELSE <<>>)
    \o (IF Has(body, "slug") /\ ~UrlSafe(body.slug)
        THEN <<"Slug must be URL-safe">> ELSE <<>>)
    \o (IF Has(body, "status")
           /\ body.status \notin {"draft", "review", "scheduled", "published"}
        THEN <<"Invalid status">> ELSE <<>>)

\* body('title').trim() rewrites req.body.title
SanitizeTitle(body) ==
  IF Has(body, "title") THEN Set(body, [title |-> trim(body.title)]) ELSE body

\* { ...req.body, author }, the slug generated from the title when missing
AdminPostData(req) ==
  LET postData == Set(SanitizeTitle(req.body), [author |-> req.actor]) IN
  IF Truthy(postData, "slug") THEN postData
  ELSE Set(postData, [slug |-> SlugFromTitle(postData.title)])

\* validation, then Post.findOne({ slug }): 409 when the slug is taken, else
\* the status defaults to draft and Post.create is issued
createAdminPostFindOne(c) ==
  /\ Handling(c, "createAdminPost")
  /\ LET req == reqs[c].req
         errors == CreateAdminErrors(req.body) IN
     IF RouteGate(req.actor, "post:create") # {}
     THEN Respond(c, The(RouteGate(req.actor, "post:create")))
     ELSE IF errors # <<>>
     THEN Respond(c, Fail(400, errors[1]))
     ELSE LET postData == AdminPostData(req) IN
          IF findBySlug(posts, postData.slug) # {}
          THEN Respond(c, Fail(409, "Slug already exists"))
          ELSE reqs' = [reqs EXCEPT ![c] =
                          [phase |-> "create", req |-> req,
                           postData |-> IF Truthy(postData, "status") THEN postData
                                        ELSE Set(postData, [status |-> "draft"])]]
  /\ UNCHANGED <<posts, pageVars, now>>

\* mutant: the collection has no unique index on slug
createAdminPostCreateNoIndex(c) ==
  /\ reqs[c].phase = "create"
  /\ LET post == NewPost(reqs[c].postData, NewId(posts), now) IN
     IF ~SchemaValid(post, RequiredPaths \cup DOMAIN post)
     THEN Respond(c, NextError("ValidationError")) /\ UNCHANGED posts
     ELSE /\ posts' = posts \cup {post}
          /\ Respond(c, Created("Draft saved", post))
  /\ UNCHANGED <<pageVars, now>>

\* Post.create executes: schema validation, the save hooks, the insert under
\* the unique index; 201 "Draft saved"
createAdminPostCreate(c) ==
  /\ reqs[c].phase = "create"
  /\ LET post == NewPost(reqs[c].postData, NewId(posts), now) IN
     IF ~SchemaValid(post, RequiredPaths \cup DOMAIN post)
     THEN Respond(c, NextError("ValidationError")) /\ UNCHANGED posts
     ELSE IF DuplicateKey(posts, post._id, post)
     THEN Respond(c, NextError("MongoServerError")) /\ UNCHANGED posts
     ELSE /\ posts' = posts \cup {post}
          /\ Respond(c, Created("Draft saved", post))
  /\ UNCHANGED <<pageVars, now>>

(***************************************************************************)
(* updateAdminPost (PATCH /admin/posts/:id), one step per store call       *)
(***************************************************************************)
UpdateAdminErrors(body) ==
  (IF Has(body, "title") /\ trim(body.title) = "" THEN <<"Title is required">> ELSE <<>>)
    \o (IF Has(body, "status")
           /\ body.status \notin {"draft", "review", "scheduled", "published"}
        THEN <<"Invalid status">> ELSE <<>>)

\* mutant: a scheduledAt equal to the current time is accepted
TransitionErrorsAcceptsNow(body, t) ==
  IF Truthy(body, "status") /\ body.status \in {"review", "scheduled", "published"}
  THEN IF ~Truthy(body, "body") \/ Len(trim(body.body)) = 0
       THEN {"Body required for publishing"}
       ELSE IF ~Has(body, "tags") \/ Len(body.tags) = 0
       THEN {"Select at least one"}
       ELSE IF body.status = "scheduled"
       THEN IF ~Has(body, "scheduledAt") THEN {"Invalid date"}
            ELSE IF getTime(body.scheduledAt) < t THEN {"Invalid date"}
            ELSE {}
       ELSE {}
  ELSE {}

\* mutant: the tags are tested before the body
TransitionErrorsTagsFirst(body, t) ==
  IF Truthy(body, "status") /\ body.status \in {"review", "scheduled", "published"}
  THEN IF ~Has(body, "tags") \/ Len(body.tags) = 0
       THEN {"Select at least one"}
       ELSE IF ~Truthy(body, "body") \/ Len(trim(body.body)) = 0
       THEN {"Body required for publishing"}
       ELSE IF body.status = "scheduled"
       THEN IF ~Has(body, "scheduledAt") THEN {"Invalid date"}
            ELSE IF getTime(body.scheduledAt) <= t THEN {"Invalid date"}
            ELSE {}
       ELSE {}
  ELSE {}

\* mutant: the schedule date is tested before the tags
TransitionErrorsDateFirst(body, t) ==
  IF Truthy(body, "status") /\ body.status \in {"review", "scheduled", "published"}
  THEN IF ~Truthy(body, "body") \/ Len(trim(body.body)) = 0
       THEN {"Body required for publishing"}
       ELSE IF body.status = "scheduled"
               /\ (~Has(body, "scheduledAt") \/ getTime(body.scheduledAt) <= t)
       THEN {"Invalid date"}
       ELSE IF ~Has(body, "tags") \/ Len(body.tags) = 0
       THEN {"Select at least one"}
       ELSE {}
  ELSE {}

\* the preconditions of a transition, evaluated on req.body at time t: the
\* 400 message, or {} when they pass
TransitionErrors(body, t) ==
  IF Truthy(body, "status") /\ body.status \in {"review", "scheduled", "published"}
  THEN IF ~Truthy(body, "body") \/ Len(trim(body.body)) = 0
       THEN {"Body required for publishing"}
       ELSE IF ~Has(body, "tags") \/ Len(body.tags) = 0
       THEN {"Select at least one"}
       ELSE IF body.status = "scheduled"
       THEN IF ~Has(body, "scheduledAt") THEN {"Invalid date"}
            ELSE IF getTime(body.scheduledAt) <= t THEN {"Invalid date"}
            ELSE {}
       ELSE {}
  ELSE {}

\* the message of a successful update
UpdateMessage(body) ==
  IF ~Has(body, "status") THEN "Post updated successfully"
  ELSE CASE body.status = "review" -> "Sent for review"
         [] body.status = "published" -> "Published"
         [] body.status = "scheduled" -> "Scheduled"
         [] OTHER -> "Post updated successfully"

\* mutant: the ownership test does not ask req.user.can('post:edit')
updateAdminPostFindByIdOwnerOnly(c) ==
  /\ Handling(c, "updateAdminPost")
  /\ LET req == reqs[c].req
         body == SanitizeTitle(req.body)
         errors == UpdateAdminErrors(req.body) IN
     IF RouteGate(req.actor, "post:edit") # {}
     THEN Respond(c, The(RouteGate(req.actor, "post:edit")))
     ELSE IF errors # <<>>
     THEN Respond(c, Fail(400, errors[1]))
     ELSE IF findById(posts, req.id) = {}
     THEN Respond(c, Fail(404, "Post not found"))
     ELSE IF The(findById(posts, req.id)).author # req.actor
     THEN Respond(c, Fail(403, "Not authorized to edit this post"))
     ELSE IF TransitionErrors(body, now) # {}
     THEN Respond(c, Fail(400, The(TransitionErrors(body, now))))
     ELSE reqs' = [reqs EXCEPT ![c] =
                     [phase |-> "update", req |-> [req EXCEPT !.body = body],
                      message |-> UpdateMessage(body)]]
  /\ UNCHANGED <<posts, pageVars, now>>

\* validation, Post.findById, the ownership test and the transition
\* preconditions; when all pass findByIdAndUpdate is issued
updateAdminPostFindById(c) ==
  /\ Handling(c, "updateAdminPost")
  /\ LET req == reqs[c].req
         body == SanitizeTitle(req.body)
         errors == UpdateAdminErrors(req.body) IN
     IF RouteGate(req.actor, "post:edit") # {}
     THEN Respond(c, The(RouteGate(req.actor, "post:edit")))
     ELSE IF errors # <<>>
     THEN Respond(c, Fail(400, errors[1]))
     ELSE IF findById(posts, req.id) = {}
     THEN Respond(c, Fail(404, "Post not found"))
     ELSE IF The(findById(posts, req.id)).author # req.actor /\ ~can(req.actor, "post:edit")
     THEN Respond(c, Fail(403, "Not authorized to edit this post"))
     ELSE IF TransitionErrors(body, now) # {}
     THEN Respond(c, Fail(400, The(TransitionErrors(body, now))))
     ELSE reqs' = [reqs EXCEPT ![c] =
                     [phase |-> "update", req |-> [req EXCEPT !.body = body],
                      message |-> UpdateMessage(body)]]
  /\ UNCHANGED <<posts, pageVars, now>>

\* what findByIdAndUpdate(id, update, { new: true, runValidators: true })
\* does: "ValidationError", "MongoServerError" (duplicate key), or the post
\* it leaves ({} when the id matches none).  The save hooks do not run.
UpdateOutcome(coll, id, update) ==
  LET upd == Cast(update) IN
  IF ~SchemaValid(upd, DOMAIN upd) THEN [error |-> "ValidationError"]
  ELSE IF findById(coll, id) = {} THEN [post |-> {}]
  ELSE IF DuplicateKey(coll, id, upd) THEN [error |-> "MongoServerError"]
  ELSE [post |-> {Set(The(findById(coll, id)), upd)}]

\* the update executes and the handler answers
FinishUpdate(c) ==
  LET req == reqs[c].req
      out == UpdateOutcome(posts, req.id, req.body) IN
  IF Has(out, "error")
  THEN Respond(c, NextError(out.error)) /\ UNCHANGED posts
  ELSE /\ posts' = {p \in posts : p._id # req.id} \cup out.post
       /\ Respond(c, IF Has(reqs[c], "message")
                     THEN OkPost(reqs[c].message, out.post)
                     ELSE OkPostData(out.post))

updateAdminPostUpdate(c) ==
  /\ reqs[c].phase = "update" /\ reqs[c].req.op = "updateAdminPost"
  /\ FinishUpdate(c)
  /\ UNCHANGED <<pageVars, now>>

(***************************************************************************)
(* updatePost (PATCH /v1/posts/:id)                                        *)
(***************************************************************************)
\* body('title').trim() and body('body').trim() rewrite req.body
SanitizeV1(body) ==
  LET b == SanitizeTitle(body) IN
  IF Has(b, "body") THEN Set(b, [body |-> trim(b.body)]) ELSE b

\* the validators of the route all answer 400 "Validation failed"
UpdatePostValid(body) ==
  /\ Has(body, "title") =>
       (Len(trim(body.title)) >= 1 /\ Len(trim(body.title)) <= MaxTitleLength)
  /\ Has(body, "body") => Len(trim(body.body)) >= MinBodyLength
  /\ Has(body, "status") => body.status \in PostStatuses

\* the slug is recomputed when the title changes; a slug held by another
\* post gets the time appended
WithNewSlug(coll, post, body, t) ==
  IF Truthy(body, "title") /\ body.title # post.title
  THEN LET newSlug == SlugFromTitle(body.title) IN
       IF \E p \in coll : p.slug = newSlug /\ p._id # post._id
       THEN Set(body, [slug |-> newSlug \o "-" \o ToString(t)])
       ELSE Set(body, [slug |-> newSlug])
  ELSE body

\* validation, Post.findById, the ownership test, the slug lookup; then
\* findByIdAndUpdate is issued
updatePostFindById(c) ==
  /\ Handling(c, "updatePost")
  /\ LET req == reqs[c].req
         body == SanitizeV1(req.body) IN
     IF RouteGate(req.actor, "post:edit") # {}
     THEN Respond(c, The(RouteGate(req.actor, "post:edit")))
     ELSE IF ~UpdatePostValid(req.body)
     THEN Respond(c, Fail(400, "Validation failed"))
     ELSE IF findById(posts, req.id) = {}
     THEN Respond(c, Fail(404, "Post not found"))
     ELSE IF The(findById(posts, req.id)).author # req.actor /\ ~can(req.actor, "post:edit")
     THEN Respond(c, Fail(403, "Not authorized to edit this post"))
     ELSE reqs' = [reqs EXCEPT ![c] =
                     [phase |-> "update",
                      req |-> [req EXCEPT !.body =
                                 WithNewSlug(posts, The(findById(posts, req.id)), body, now)]]]
  /\ UNCHANGED <<posts, pageVars, now>>

updatePostUpdate(c) ==
  /\ reqs[c].phase = "update" /\ reqs[c].req.op = "updatePost"
  /\ FinishUpdate(c)
  /\ UNCHANGED <<pageVars, now>>

(***************************************************************************)
(* The unauthenticated reads: getPublicPostBySlug (GET /posts/:slug),      *)
(* getPost (GET /v1/posts/:id), getPosts (GET /v1/posts)                   *)
(***************************************************************************)
\* findByIdAndUpdate(id, { $inc: { 'stats.views': 1 } })
IncViews(coll, id) ==
  {IF p._id = id THEN [p EXCEPT !.views = @ + 1] ELSE p : p \in coll}

getPublicPostBySlug(c) ==
  /\ Handling(c, "getPublicPostBySlug")
  /\ LET slug == reqs[c].req.slug
         found == {p \in posts : p.slug = slug /\ p.status = "published"} IN
     IF ~UrlSafe(slug)
     THEN Respond(c, Fail(400, "Invalid slug format")) /\ UNCHANGED posts
     ELSE IF found = {}
     THEN Respond(c, Fail(404, "Post not found")) /\ UNCHANGED posts
     ELSE \E post \in found :
            /\ posts' = IncViews(posts, post._id)
            /\ Respond(c, OkPostData({[post EXCEPT !.views = @ + 1]}))
  /\ UNCHANGED <<pageVars, now>>

getPost(c) ==
  /\ Handling(c, "getPost")
  /\ LET found == findById(posts, reqs[c].req.id) IN
     IF found = {}
     THEN Respond(c, Fail(404, "Post not found")) /\ UNCHANGED posts
     ELSE IF The(found).status = "published"
     THEN /\ posts' = IncViews(posts, The(found)._id)
          /\ Respond(c, OkPostData({[The(found) EXCEPT !.views = @ + 1]}))
     ELSE /\ Respond(c, OkPostData(found))
          /\ UNCHANGED posts
  /\ UNCHANGED <<pageVars, now>>

\* query is the set of values of ?status= (empty when omitted)
getPostsResponse(coll, query) ==
  OkPosts({p \in coll : \A s \in query : p.status = s})

getPosts(c) ==
  /\ Handling(c, "getPosts")
  /\ Respond(c, getPostsResponse(posts, reqs[c].req.query))
  /\ UNCHANGED <<posts, pageVars, now>>

(***************************************************************************)
(* The admin reads: getAdminPosts (GET /admin/posts), getAdminPost         *)
(* (GET /admin/posts/:id), getPostPreview (GET /admin/posts/:id/preview)   *)
(***************************************************************************)
getAdminPosts(c) ==
  /\ Handling(c, "getAdminPosts")
  /\ LET req == reqs[c].req
         rows == {p \in posts : \A s \in req.query : p.status = s} IN
     IF RouteGate(req.actor, "post:view") # {}
     THEN Respond(c, The(RouteGate(req.actor, "post:view")))
     ELSE Respond(c, [status |-> 200, success |-> TRUE, rows |-> rows,
                      total |-> Cardinality(rows)])
  /\ UNCHANGED <<posts, pageVars, now>>

getAdminPost(c) ==
  /\ Handling(c, "getAdminPost")
  /\ LET req == reqs[c].req IN
     IF RouteGate(req.actor, "post:view") # {}
     THEN Respond(c, The(RouteGate(req.actor, "post:view")))
     ELSE IF findById(posts, req.id) = {}
     THEN Respond(c, Fail(404, "Post not found"))
     ELSE Respond(c, OkPostData(findById(posts, req.id)))
  /\ UNCHANGED <<posts, pageVars, now>>

\* the keyed digest of `${id}-${timestamp}`, one value per payload
Hmac(id, timestamp) == <<"sha256", id, timestamp>>

\* mutant: the preview route has no gate
getPostPreviewUnprotected(c) ==
  /\ Handling(c, "getPostPreview")
  /\ LET req == reqs[c].req IN
     IF findById(posts, req.id) = {}
     THEN Respond(c, Fail(404, "Post not found"))
     ELSE Respond(c, [status |-> 200, success |-> TRUE,
                      previewUrl |-> [id |-> req.id, t |-> now, h |-> Hmac(req.id, now)]])
  /\ UNCHANGED <<posts, pageVars, now>>

getPostPreview(c) ==
  /\ Handling(c, "getPostPreview")
  /\ LET req == reqs[c].req IN
     IF RouteGate(req.actor, "post:view") # {}
     THEN Respond(c, The(RouteGate(req.actor, "post:view")))
     ELSE IF findById(posts, req.id) = {}
     THEN Respond(c, Fail(404, "Post not found"))
     ELSE Respond(c, [status |-> 200, success |-> TRUE,
                      previewUrl |-> [id |-> req.id, t |-> now, h |-> Hmac(req.id, now)]])
  /\ UNCHANGED <<posts, pageVars, now>>

(***************************************************************************)
(* The content-page routes behind their gate.  The gate answers 401 / 403  *)
(* itself; a request that passes is handed to the handler.                 *)
(***************************************************************************)
Gated(c, req, action, handler) ==
  /\ reqs[c].phase \in {"idle", "response", "passed"}
  /\ IF RouteGate(req.actor, action) = {}
     THEN /\ handler
          /\ reqs' = [reqs EXCEPT ![c] = [phase |-> "passed", req |-> req]]
          /\ UNCHANGED posts
     ELSE /\ reqs' = [reqs EXCEPT ![c] =
                        [phase |-> "response", req |-> req,
                         res |-> The(RouteGate(req.actor, action))]]
          /\ UNCHANGED <<posts, pageVars, now>>

\* POST /admin/content-page
PostContentPage(c, actor, body) ==
  Gated(c, [op |-> "saveContentPage", actor |-> actor], "post:edit", ReceiveSave(body))

\* GET /admin/content-page
GetContentPage(c, actor) ==
  Gated(c, [op |-> "getContentPage", actor |-> actor], "post:view", getContentPage)

\* mutant: the publish route asks for post:edit
PatchContentPagePublishEdit(c, r, actor) ==
  Gated(c, [op |-> "publishContentPage", actor |-> actor], "post:edit",
        PublishStart(r))

\* PATCH /admin/content-page/publish
PatchContentPagePublish(c, r, actor) ==
  Gated(c, [op |-> "publishContentPage", actor |-> actor], "post:publish",
        PublishStart(r))

\* the clock of the post specifications
(***************************************************************************)
(* deletePost (DELETE /v1/posts/:id), bulk (PATCH /v1/posts/bulk)          *)
(***************************************************************************)
\* Post.findById, then Post.findByIdAndDelete
deletePost(c) ==
  /\ Handling(c, "deletePost")
  /\ LET req == reqs[c].req IN
     IF RouteGate(req.actor, "post:delete") # {}
     THEN Respond(c, The(RouteGate(req.actor, "post:delete"))) /\ UNCHANGED posts
     ELSE IF findById(posts, req.id) = {}
     THEN Respond(c, Fail(404, "Post not found")) /\ UNCHANGED posts
     ELSE /\ posts' = posts \ findById(posts, req.id)
          /\ Respond(c, [status |-> 200, success |-> TRUE,
                          message |-> "Post deleted successfully"])
  /\ UNCHANGED <<pageVars, now>>

BulkValid(body) ==
  /\ Has(body, "postIds") /\ Len(body.postIds) >= 1
  /\ Has(body, "action") /\ body.action \in {"changeStatus", "delete"}
  /\ Has(body, "status") => body.status \in PostStatuses

\* the loop over postIds: findByIdAndDelete(postId), or
\* findByIdAndUpdate(postId, { status }) without validators
RECURSIVE BulkApply(_, _, _)
BulkApply(coll, body, i) ==
  IF i > Len(body.postIds) THEN coll
  ELSE LET postId == body.postIds[i]
           next == IF body.action = "delete"
                   THEN coll \ findById(coll, postId)
                   ELSE IF body.action = "changeStatus" /\ Truthy(body, "status")
                   THEN {IF p._id = postId THEN Set(p, [status |-> body.status]) ELSE p :
                           p \in coll}
                   ELSE coll IN
       BulkApply(next, body, i + 1)

bulkUpdatePosts(c) ==
  /\ Handling(c, "bulkUpdatePosts")
  /\ LET req == reqs[c].req IN
     IF RouteGate(req.actor, "post:edit") # {}
     THEN Respond(c, The(RouteGate(req.actor, "post:edit"))) /\ UNCHANGED posts
     ELSE IF ~BulkValid(req.body)
     THEN Respond(c, Fail(400, "Validation failed")) /\ UNCHANGED posts
     ELSE /\ posts' = BulkApply(posts, req.body, 1)
          /\ Respond(c, [status |-> 200, success |-> TRUE,
                          results |-> [success |-> Len(req.body.postIds),
                                       failed |-> 0]])
  /\ UNCHANGED <<pageVars, now>>

(***************************************************************************)
(* revalidatePath (POST /revalidate)                                       *)
(***************************************************************************)
\* JSON values of the path field
JsonString(s) == [type |-> "string", value |-> s]
JsonNumber(n) == [type |-> "number", value |-> n]

\* process.env.REVALIDATE_SECRET || 'revalidate-secret'
expectedSecret(env) ==
  IF Truthy(env, "REVALIDATE_SECRET") THEN env.REVALIDATE_SECRET
  ELSE "revalidate-secret"

\* body('path').optional().isString()
RevalidateValid(body) == Has(body, "path") => body.path.type = "string"

revalidatePathResponse(req) ==
  IF ~RevalidateValid(req.body) THEN Fail(400, "Invalid request")
  ELSE IF ~Has(req.headers, "x-revalidate-secret")
          \/ req.headers["x-revalidate-secret"] # expectedSecret(req.env)
  THEN Fail(401, "Invalid secret")
  ELSE [status |-> 200, success |-> TRUE,
        message |-> "Path revalidated successfully",
        path |-> IF Has(req.body, "path") THEN req.body.path.value ELSE "/"]

revalidatePath(c) ==
  /\ Handling(c, "revalidatePath")
  /\ Respond(c, revalidatePathResponse(reqs[c].req))
  /\ UNCHANGED <<posts, pageVars, now>>

PostTick ==
  /\ now < MaxTime
  /\ now' = now + 1
  /\ UNCHANGED <<posts, reqs, pageVars>>

IdleRequest == [phase |-> "idle"]

(***************************************************************************)
(* Specifications.                                                         *)
(***************************************************************************)
\* Spec: the publication engine.  One publish request at a time, interleaved
\* step by step with saves and reads.
DraftBodies == BodiesOver(DraftSectionInputs, MaxDraftSections)

Queries == {{}, {"published"}, {"draft"}}

Init ==
  /\ docs = {}
  /\ now = 0
  /\ webhookUrl \in BOOLEAN
  /\ http = [phase |-> "idle"]
  /\ pub = [r \in {1} |-> IdlePublish]
  /\ snapshot = {}
  /\ pubRun = 0
  /\ posts = {}
  /\ reqs = [c \in {1} |-> IdleRequest]

Next ==
  \/ (\E body \in DraftBodies : ReceiveSave(body)) /\ UNCHANGED postVars
  \/ saveContentPage /\ UNCHANGED postVars
  \/ getContentPage /\ UNCHANGED postVars
  \/ (\E query \in Queries : getPublicContentPage(query)) /\ UNCHANGED postVars
  \/ (\E r \in DOMAIN pub : PublishStart(r)) /\ UNCHANGED postVars
  \/ (\E r \in DOMAIN pub : PublishFindOne(r)) /\ UNCHANGED postVars
  \/ (\E r \in DOMAIN pub : PublishUpdate(r)) /\ UNCHANGED postVars
  \/ (\E r \in DOMAIN pub : PublishTrigger(r)) /\ UNCHANGED postVars
  \/ (\E r \in DOMAIN pub, outcome \in FetchOutcomes :
        PublishFetchSettled(r, outcome)) /\ UNCHANGED postVars
  \/ Tick /\ UNCHANGED postVars

Spec == Init /\ [][Next]_vars

\* SaveSpec: the save path over the wide set of section payloads.
SaveBodies == BodiesOver(SectionInputs, MaxSections)

SaveNext ==
  \/ (\E body \in SaveBodies : ReceiveSave(body)) /\ UNCHANGED postVars
  \/ saveContentPage /\ UNCHANGED postVars
  \/ getContentPage /\ UNCHANGED postVars
  \/ (\E query \in Queries : getPublicContentPage(query)) /\ UNCHANGED postVars

SaveSpec == Init /\ [][SaveNext]_vars

(***************************************************************************)
(* Post payloads and the post specifications.                              *)
(***************************************************************************)
TitleTest == "Test Post"
TitleDraft == "Draft Post"
SlugTest == "test-post"
SlugDraft == "draft-post"
SeedBody ==
  "This is a test post body with enough content to meet the minimum requirements."
BodyShort == "This is a test post body."
BodyBlank == "   "
TagsTest == <<"test">>
TagsPublished == <<"published", "test">>

\* a field of a request body that may be missing
Optional(f, S) == {<<>>} \cup {f :> v : v \in S}

\* the content-page state of the post specifications: nothing stored,
\* nothing in flight
PageIdle ==
  /\ docs = {}
  /\ webhookUrl = FALSE
  /\ http = [phase |-> "idle"]
  /\ pub = [r \in {1} |-> IdlePublish]
  /\ snapshot = {}
  /\ pubRun = 0

\* PostSpec: the transitions of one post.  A contributor creates it (as a
\* draft, or published at once); an editor updates it over every combination
\* of target status, body, tags and scheduledAt, and a contributor asks for
\* the transitions into scheduled and published.
PostCreateBodies ==
  {[title |-> TitleTest, body |-> SeedBody, tags |-> TagsTest],
   [title |-> TitleTest, slug |-> SlugTest, body |-> SeedBody, tags |-> TagsTest,
    status |-> "published"]}

TransitionBodies ==
  {s @@ b @@ t : s \in Optional("status", {"draft", "review", "published"}),
                 b \in Optional("body", {"", SeedBody}),
                 t \in Optional("tags", {<<>>, TagsPublished})}

ScheduleBodies ==
  {[status |-> "scheduled"] @@ b @@ t @@ d :
     b \in {[body |-> ""], [body |-> SeedBody]},
     t \in {[tags |-> <<>>], [tags |-> TagsPublished]},
     d \in Optional("scheduledAt", {toISOString(i) : i \in 0..(MaxTime + 1)})}

\* bodies that carry publishedAt, a blank body, a status the route refuses,
\* a blank title, a body below the schema's minimum length
OtherBodies ==
  {[publishedAt |-> toISOString(MaxTime + 1)],
   [status |-> "published", body |-> SeedBody, tags |-> TagsPublished,
    publishedAt |-> toISOString(MaxTime + 1)],
   [status |-> "review", body |-> BodyBlank, tags |-> TagsPublished],
   [status |-> "archived"],
   [title |-> "  "],
   [status |-> "published", body |-> BodyShort, tags |-> TagsPublished]}

PostUpdateBodies == TransitionBodies \cup ScheduleBodies \cup OtherBodies

\* the transitions a contributor asks for
ElevatedBodies ==
  {[status |-> "published", body |-> SeedBody, tags |-> TagsPublished],
   [status |-> "scheduled", body |-> SeedBody, tags |-> TagsPublished,
    scheduledAt |-> toISOString(MaxTime + 1)]}

V1UpdateBodies == {[status |-> "published"], [body |-> BodyShort]}

PostRequests ==
  {[op |-> "createAdminPost", actor |-> "contributor", body |-> b] :
     b \in PostCreateBodies}
    \cup {[op |-> "updateAdminPost", actor |-> "editor", id |-> 1, body |-> b] :
            b \in PostUpdateBodies}
    \cup {[op |-> "updateAdminPost", actor |-> "contributor", id |-> 1, body |-> b] :
            b \in ElevatedBodies}
    \cup {[op |-> "updatePost", actor |-> "editor", id |-> 1, body |-> b] :
            b \in V1UpdateBodies}

PostInit ==
  /\ PageIdle
  /\ now = 0
  /\ posts = {}
  /\ reqs = [c \in {1} |-> IdleRequest]

PostNext ==
  \/ \E c \in DOMAIN reqs, req \in PostRequests : Receive(c, req)
  \/ \E c \in DOMAIN reqs : createAdminPostFindOne(c)
  \/ \E c \in DOMAIN reqs : createAdminPostCreate(c)
  \/ \E c \in DOMAIN reqs : updateAdminPostFindById(c)
  \/ \E c \in DOMAIN reqs : updateAdminPostUpdate(c)
  \/ \E c \in DOMAIN reqs : updatePostFindById(c)
  \/ \E c \in DOMAIN reqs : updatePostUpdate(c)
  \/ PostTick

PostSpec == PostInit /\ [][PostNext]_vars

\* AuthSpec: one client sends one request at a time, as every role and
\* without a token, to the eight admin routes and the two public ones.
Quiet ==
  /\ http.phase # "request"
  /\ \A r \in DOMAIN pub : pub[r].pc \in {"idle", "done"}
  /\ \A c \in DOMAIN reqs : reqs[c].phase \in {"idle", "response", "passed"}

AuthSaveBodies == {[sections |-> <<TextFirst>>], [seo |-> SeoHome]}

AuthPostRequests ==
  UNION {
    {[op |-> "createAdminPost", actor |-> a,
      body |-> [title |-> TitleTest, body |-> SeedBody, tags |-> TagsTest]],
     [op |-> "createAdminPost", actor |-> a, body |-> [slug |-> SlugTest]],
     [op |-> "updateAdminPost", actor |-> a, id |-> 1,
      body |-> [status |-> "published", body |-> SeedBody, tags |-> TagsPublished]],
     [op |-> "updateAdminPost", actor |-> a, id |-> 1, body |-> [status |-> "archived"]],
     [op |-> "getAdminPosts", actor |-> a, query |-> {}],
     [op |-> "getAdminPost", actor |-> a, id |-> 1],
     [op |-> "getPostPreview", actor |-> a, id |-> 1]} : a \in Actors}
    \cup {[op |-> "getPublicPostBySlug", slug |-> SlugTest]}

AuthInit ==
  /\ PageIdle
  /\ now = 0
  /\ posts = {}
  /\ reqs = [c \in {1} |-> IdleRequest]

AuthNext ==
  \/ \E c \in DOMAIN reqs, actor \in Actors, body \in AuthSaveBodies :
       Quiet /\ PostContentPage(c, actor, body)
  \/ saveContentPage /\ UNCHANGED postVars
  \/ \E c \in DOMAIN reqs, actor \in Actors : Quiet /\ GetContentPage(c, actor)
  \/ \E c \in DOMAIN reqs, r \in DOMAIN pub, actor \in Actors :
       Quiet /\ PatchContentPagePublish(c, r, actor)
  \/ (\E r \in DOMAIN pub : PublishFindOne(r)) /\ UNCHANGED postVars
  \/ (\E r \in DOMAIN pub : PublishUpdate(r)) /\ UNCHANGED postVars
  \/ (\E r \in DOMAIN pub : PublishTrigger(r)) /\ UNCHANGED postVars
  \/ Quiet /\ getPublicContentPage({"published"}) /\ UNCHANGED postVars
  \/ \E c \in DOMAIN reqs, req \in AuthPostRequests :
       /\ Quiet
       /\ req.op = "getPublicPostBySlug" => \A p \in posts : p.views < MaxViews
       /\ Receive(c, req)
  \/ \E c \in DOMAIN reqs : createAdminPostFindOne(c)
  \/ \E c \in DOMAIN reqs : createAdminPostCreate(c)
  \/ \E c \in DOMAIN reqs : updateAdminPostFindById(c)
  \/ \E c \in DOMAIN reqs : updateAdminPostUpdate(c)
  \/ \E c \in DOMAIN reqs : getAdminPosts(c)
  \/ \E c \in DOMAIN reqs : getAdminPost(c)
  \/ \E c \in DOMAIN reqs : getPostPreview(c)
  \/ \E c \in DOMAIN reqs : getPublicPostBySlug(c)

AuthSpec == AuthInit /\ [][AuthNext]_vars

\* ReadSpec: an editor creates up to two posts, moves them between draft,
\* review and published and sets a slug; callers without a token read by
\* slug, by id and as a list.
SlugSpaced == "test post"

ReadWrites ==
  {[op |-> "createAdminPost", actor |-> "editor",
    body |-> [title |-> t, body |-> SeedBody, tags |-> TagsTest]] :
     t \in {TitleTest, TitleDraft}}
    \cup {[op |-> "updateAdminPost", actor |-> "editor", id |-> i, body |-> b] :
            i \in {1, 2},
            b \in {[status |-> "draft"],
                   [status |-> "review", body |-> SeedBody, tags |-> TagsPublished],
                   [status |-> "published", body |-> SeedBody,
                    tags |-> TagsPublished],
                   [slug |-> TitleTest]}}

ReadReads ==
  {[op |-> "getPublicPostBySlug", slug |-> g] :
     g \in {SlugTest, SlugDraft, SlugSpaced}}
    \cup {[op |-> "getPost", id |-> i] : i \in {1, 2}}
    \cup {[op |-> "getPosts", query |-> q] : q \in Queries}

\* the posts whose view count the read may increment
ReadTargets(req) ==
  CASE req.op = "getPublicPostBySlug" -> {p \in posts : p.slug = req.slug}
    [] req.op = "getPost" -> findById(posts, req.id)
    [] OTHER -> {}

ReadInit ==
  /\ PageIdle
  /\ now = 0
  /\ posts = {}
  /\ reqs = [c \in {1} |-> IdleRequest]

ReadNext ==
  \/ \E c \in DOMAIN reqs, req \in ReadWrites : Receive(c, req)
  \/ \E c \in DOMAIN reqs, req \in ReadReads :
       /\ \A p \in ReadTargets(req) : p.views < MaxViews
       /\ Receive(c, req)
  \/ \E c \in DOMAIN reqs : createAdminPostFindOne(c)
  \/ \E c \in DOMAIN reqs : createAdminPostCreate(c)
  \/ \E c \in DOMAIN reqs : updateAdminPostFindById(c)
  \/ \E c \in DOMAIN reqs : updateAdminPostUpdate(c)
  \/ \E c \in DOMAIN reqs : getPublicPostBySlug(c)
  \/ \E c \in DOMAIN reqs : getPost(c)
  \/ \E c \in DOMAIN reqs : getPosts(c)

ReadSpec == ReadInit /\ [][ReadNext]_vars

\* RaceSpec: two connections, so that the store calls of two handlers
\* interleave.  Creates carry the same slug or generate one from the title;
\* updates set a slug (PATCH /admin/posts/:id) or change the title
\* (PATCH /v1/posts/:id).
SlugUpper == " Test-Post"

RaceCreates ==
  {[op |-> "createAdminPost", actor |-> "editor", body |-> b] :
     b \in {[title |-> TitleTest, slug |-> SlugTest, body |-> SeedBody,
            tags |-> TagsTest],
           [title |-> TitleDraft, body |-> SeedBody, tags |-> TagsTest]}}

\* the first connection sets a slug or a title through the admin route, the
\* second changes a title through the v1 route
RaceUpdates(c) ==
  IF c = 1
  THEN {[op |-> "updateAdminPost", actor |-> "editor", id |-> i, body |-> b] :
          i \in {1, 2}, b \in {[slug |-> SlugUpper], [title |-> TitleDraft]}}
  ELSE {[op |-> "updatePost", actor |-> "editor", id |-> i,
         body |-> [title |-> TitleTest]] : i \in {1, 2}}

\* the create requests in flight
Creating ==
  {c \in DOMAIN reqs : reqs[c].phase \in {"request", "create"}
                        /\ reqs[c].req.op = "createAdminPost"}

RaceInit ==
  /\ PageIdle
  /\ now = 0
  /\ posts = {}
  /\ reqs = [c \in {1, 2} |-> IdleRequest]

RaceNext ==
  \/ \E c \in DOMAIN reqs, req \in RaceCreates :
       /\ Cardinality(posts) + Cardinality(Creating) < MaxPosts
       /\ Receive(c, req)
  \/ \E c \in DOMAIN reqs : \E req \in RaceUpdates(c) : Receive(c, req)
  \/ \E c \in DOMAIN reqs : createAdminPostFindOne(c)
  \/ \E c \in DOMAIN reqs : createAdminPostCreate(c)
  \/ \E c \in DOMAIN reqs : updateAdminPostFindById(c)
  \/ \E c \in DOMAIN reqs : updateAdminPostUpdate(c)
  \/ \E c \in DOMAIN reqs : updatePostFindById(c)
  \/ \E c \in DOMAIN reqs : updatePostUpdate(c)

RaceSpec == RaceInit /\ [][RaceNext]_vars

\* DeleteSpec: an editor creates posts; every role asks to delete one and
\* sends the bulk operation (delete, changeStatus) over one or two ids.
BulkBodies ==
  {[postIds |-> ids, action |-> "delete"] : ids \in {<<1>>, <<1, 2>>}}
    \cup {[postIds |-> <<1, 2>>, action |-> "changeStatus", status |-> "published"],
          [postIds |-> <<>>, action |-> "delete"],
          [postIds |-> <<1>>, action |-> "changeStatus"]}

DeleteRequests ==
  {[op |-> "createAdminPost", actor |-> "editor",
    body |-> [title |-> t, body |-> SeedBody, tags |-> TagsTest]] :
     t \in {TitleTest, TitleDraft}}
    \cup {[op |-> "deletePost", actor |-> a, id |-> i] : a \in Actors, i \in {1, 2}}
    \cup {[op |-> "bulkUpdatePosts", actor |-> a, body |-> b] :
            a \in Actors, b \in BulkBodies}

DeleteNext ==
  \/ \E c \in DOMAIN reqs, req \in DeleteRequests : Receive(c, req)
  \/ \E c \in DOMAIN reqs : createAdminPostFindOne(c)
  \/ \E c \in DOMAIN reqs : createAdminPostCreate(c)
  \/ \E c \in DOMAIN reqs : deletePost(c)
  \/ \E c \in DOMAIN reqs : bulkUpdatePosts(c)

DeleteSpec == PostInit /\ [][DeleteNext]_vars

\* PublishRaceSpec: the page is saved once; then two publish requests run
\* with their store calls interleaved and no save in between.
PublishRaceInit ==
  /\ docs = {}
  /\ now = 0
  /\ webhookUrl = FALSE
  /\ http = [phase |-> "idle"]
  /\ pub = [r \in {1, 2} |-> IdlePublish]
  /\ snapshot = {}
  /\ pubRun = 0
  /\ posts = {}
  /\ reqs = [c \in {1} |-> IdleRequest]

PublishRaceNext ==
  \/ (\E body \in AuthSaveBodies : docs = {} /\ ReceiveSave(body))
       /\ UNCHANGED postVars
  \/ saveContentPage /\ UNCHANGED postVars
  \/ (\E r \in DOMAIN pub : http.phase # "request" /\ PublishStart(r))
       /\ UNCHANGED postVars
  \/ (\E r \in DOMAIN pub : PublishFindOne(r)) /\ UNCHANGED postVars
  \/ (\E r \in DOMAIN pub : PublishUpdate(r)) /\ UNCHANGED postVars
  \/ (\E r \in DOMAIN pub : PublishTrigger(r)) /\ UNCHANGED postVars

PublishRaceSpec == PublishRaceInit /\ [][PublishRaceNext]_vars

\* RevalidateSpec: two callers post to the revalidation endpoint with and
\* without the header, with the configured and the built-in secret, and with
\* every shape of path.
TestSecret == "test-revalidate-secret"

RevalidateRequests ==
  {[op |-> "revalidatePath", env |-> e, headers |-> h, body |-> b] :
     e \in Optional("REVALIDATE_SECRET", {"", TestSecret}),
     h \in Optional("x-revalidate-secret",
                    {TestSecret, "wrong-secret", "revalidate-secret"}),
     b \in Optional("path", {JsonString("/content-page"), JsonString(""),
                             JsonNumber(123)})}

RevalidateNext ==
  \/ \E c \in DOMAIN reqs, req \in RevalidateRequests : Receive(c, req)
  \/ \E c \in DOMAIN reqs : revalidatePath(c)

RevalidateSpec == RaceInit /\ [][RevalidateNext]_vars

(***************************************************************************)
(* Steps of the handlers, as seen on a pair of states.                     *)
(***************************************************************************)
SaveStep == http.phase = "request" /\ http'.phase = "response"

FindOneStep(r) == pub[r].pc = "findOne" /\ pub'[r].pc # "findOne"

UpdateStep(r) == pub[r].pc = "update" /\ pub'[r].pc = "updated"

AfterUpdateStep(r) ==
  pub[r].pc \in {"updated", "fetch"} /\ pub'[r].pc # pub[r].pc

RespondStep(r) ==
  pub[r].pc \in {"updated", "fetch"} /\ pub'[r].pc = "done"

Answered(r, code) ==
  pub[r].pc = "done" /\ \E x \in pub[r].res : x.status = code

\* an imageGallery section without a single image
ZeroImageGallery(section) ==
  /\ Has(section, "type") /\ section.type = "imageGallery"
  /\ \/ ~Has(section, "props")
     \/ ~Has(section.props, "images")
     \/ Len(section.props.images) = 0

(***************************************************************************)
(* C1.  After a publish, the public read answers 200 with exactly the      *)
(* sections, SEO and version captured by that publish, whatever saves      *)
(* follow, until the next publish.                                         *)
(***************************************************************************)
C1_SnapshotIsolation ==
  snapshot # {} =>
    LET resp == getPublicContentPageResponse(docs, {"published"}) IN
      /\ resp.status = 200
      /\ Content(resp.data) = The(snapshot)

(***************************************************************************)
(* C2.  The stored version never decreases, and a save leaves it           *)
(* unchanged.                                                              *)
(***************************************************************************)
C2_VersionMonotone ==
  [][\A d \in docs, e \in docs' :
       /\ e.version >= d.version
       /\ SaveStep => e.version = d.version]_vars

(***************************************************************************)
(* C3.  A publish that read the page at version N writes status published, *)
(* version N+1 and publishedAt = the time of the call (between the arrival *)
(* of the request and its answer), and answers 200 with that same state.   *)
(***************************************************************************)
C3_PublishWrites ==
  [][\A r \in DOMAIN pub :
       /\ UpdateStep(r) =>
            \A d \in docs' :
              /\ d.status = "published"
              /\ d.version = The(pub[r].contentPage).version + 1
              /\ pub[r].untouched => \A c \in docs : d.version = c.version + 1
              /\ pub[r].startedAt <= getTime(d.publishedAt)
              /\ getTime(d.publishedAt) <= now
              /\ \A pd \in pub[r].publishedData :
                   /\ pd.status = d.status
                   /\ pd.version = d.version
                   /\ pd.publishedAt = d.publishedAt
       /\ RespondStep(r) =>
            /\ pub'[r].res =
                 {Ok("Content page published", The(pub[r].publishedData))}
            /\ getTime(The(pub[r].publishedData).publishedAt) <= now]_vars

C3_Witness ==
  \E r \in DOMAIN pub :
    /\ Answered(r, 200)
    /\ The(pub[r].res).data.version = 3
    /\ getTime(The(pub[r].res).data.publishedAt) = 1
    /\ \E d \in docs : /\ d.status = "published" /\ d.version = 3
                       /\ d.publishedAt = The(pub[r].res).data.publishedAt

(***************************************************************************)
(* C4.  A publish with no other write since its read leaves sections and   *)
(* SEO as they are and adds exactly 1 to the version, so two consecutive   *)
(* publishes yield N+1 and N+2 over the same draft content.                *)
(***************************************************************************)
C4_PublishKeepsContent ==
  [][\A r \in DOMAIN pub :
       (UpdateStep(r) /\ pub[r].untouched) =>
          \A c \in docs : \E d \in docs' :
            /\ d.sections = c.sections
            /\ Content(d).seo = Content(c).seo
            /\ d.version = c.version + 1]_vars

C4_Witness ==
  /\ pubRun = 2
  /\ \E d \in docs : /\ d.version = 3 /\ d.status = "published"
                     /\ d.sections = <<TextFirst>> /\ Has(d, "seo")

(***************************************************************************)
(* C5.  A publish that finds no content page answers 404 "Content page not *)
(* found" and writes nothing: the store stays empty and the request makes  *)
(* no store write and no webhook call.                                     *)
(***************************************************************************)
C5_PublishMissing ==
  [][\A r \in DOMAIN pub :
       (FindOneStep(r) /\ findOne(docs) = {}) =>
          /\ docs' = docs
          /\ pub'[r].pc = "done"
          /\ pub'[r].res = {Fail(404, "Content page not found")}
          /\ pub'[r].writes = 0
          /\ pub'[r].fetchCalls = 0]_vars

C5_Witness ==
  /\ docs = {}
  /\ \E r \in DOMAIN pub : Answered(r, 404) /\ pub[r].writes = 0

(***************************************************************************)
(* C6.  A save whose sections contain an imageGallery section with zero    *)
(* images, at any position, answers 400 "Gallery must have at least one    *)
(* image" and leaves the store unchanged.                                  *)
(***************************************************************************)
C6_EmptyGalleryRejected ==
  [][(/\ SaveStep
      /\ Has(http.body, "sections")
      /\ \E i \in 1..Len(http.body.sections) :
           ZeroImageGallery(http.body.sections[i]))
       => /\ http'.resp = Fail(400, "Gallery must have at least one image")
          /\ docs' = docs]_vars

(***************************************************************************)
(* C7.  Round trip: a save of a valid section sequence succeeds, and the   *)
(* admin get that follows returns the submitted sections, same order and   *)
(* same count.                                                             *)
(***************************************************************************)
C7_SaveGetRoundTrip ==
  [][(/\ SaveStep
      /\ Has(http.body, "sections")
      /\ AllSectionsValid(http.body.sections))
       => /\ http'.resp.status = 200
          /\ http'.resp.data.sections = http.body.sections
          /\ LET got == getContentPageResponse(docs') IN
               /\ got.status = 200
               /\ got.data.sections = http.body.sections
               /\ Len(got.data.sections) = Len(http.body.sections)]_vars

C7_Witness ==
  /\ http.phase = "response" /\ http.op = "get" /\ http.resp.status = 200
  /\ http.resp.data.sections = <<SingleImage1, TextFirst>>

(***************************************************************************)
(* C8.  Every stored section has one of the six known types and satisfies  *)
(* that type's structural rule; a save carrying a section of unknown type  *)
(* or one violating its rule is rejected.                                  *)
(***************************************************************************)
C8_StoredSectionsValid ==
  /\ [](\A d \in docs : \A i \in 1..Len(d.sections) :
          /\ d.sections[i].type \in KnownTypes
          /\ SectionUnion(d.sections[i]))
  /\ [][(/\ SaveStep
         /\ Has(http.body, "sections")
         /\ ~AllSectionsValid(http.body.sections))
          => /\ ~http'.resp.success
             /\ docs' = docs]_vars

(***************************************************************************)
(* C9.  A failing webhook call (rejected, or answered non-2xx) does not    *)
(* fail the publish: the request still answers 200 success, and no step    *)
(* after the update touches the store.                                     *)
(***************************************************************************)
C9_WebhookFailureIgnored ==
  [][\A r \in DOMAIN pub :
       AfterUpdateStep(r) =>
          /\ docs' = docs
          /\ pub'[r].writes = 1
          /\ pub'[r].pc = "done" =>
               \A x \in pub'[r].res : x.status = 200 /\ x.success]_vars

C9_Witness ==
  \E r \in DOMAIN pub :
    /\ Answered(r, 200)
    /\ pub[r].fetchResult = "rejected"
    /\ \E d \in docs : /\ d.status = "published"
                       /\ d.version = The(pub[r].res).data.version

(***************************************************************************)
(* C10.  A publish request calls the webhook at most once, only after its  *)
(* write has reached the store, and never when it answers 404.             *)
(***************************************************************************)
C10_WebhookOnceAfterCommit ==
  \A r \in DOMAIN pub :
    /\ pub[r].fetchCalls <= 1
    /\ pub[r].fetchCalls >= 1 => pub[r].writes >= 1
    /\ Answered(r, 404) => pub[r].fetchCalls = 0

C10_Witness ==
  /\ webhookUrl
  /\ \E r \in DOMAIN pub :
       /\ Answered(r, 200) /\ pub[r].fetchCalls = 1 /\ pub[r].writes = 1
       /\ pub[r].fetchResult = "rejected"

(***************************************************************************)
(* Steps of the post handlers, as seen on a pair of states.                *)
(***************************************************************************)
\* the handler of request c reaches the end of its first store call
FirstStep(c, op) == Handling(c, op) /\ reqs'[c].phase # "request"

\* the request is answered in this step
AnswerStep(c) == reqs[c].phase # "response" /\ reqs'[c].phase = "response"

\* PATCH /admin/posts/:id for an existing post, by an actor the route lets
\* through, with a body the route validators accept
AdminUpdateReaches(c) ==
  /\ FirstStep(c, "updateAdminPost")
  /\ RouteGate(reqs[c].req.actor, "post:edit") = {}
  /\ UpdateAdminErrors(reqs[c].req.body) = <<>>
  /\ findById(posts, reqs[c].req.id) # {}

TargetStatus(c, S) ==
  Has(reqs[c].req.body, "status") /\ reqs[c].req.body.status \in S

\* the body / the tags of the request are missing or empty
EmptyBody(body) == ~Has(body, "body") \/ trim(body.body) = ""
EmptyTags(body) == ~Has(body, "tags") \/ Len(body.tags) = 0

Rejected(c, code, msg) ==
  /\ reqs'[c].phase = "response"
  /\ reqs'[c].res = Fail(code, msg)
  /\ posts' = posts

\* request c of the kind op has been answered with status code
PostAnswered(c, op, code) ==
  /\ reqs[c].phase = "response"
  /\ reqs[c].req.op = op
  /\ reqs[c].res.status = code

(***************************************************************************)
(* C11.  An update of an existing post whose target status is review,      *)
(* scheduled or published is answered 400 "Body required for publishing"   *)
(* when the body is missing, empty or blank, and 400 "Select at least one" *)
(* when the body is there and the tags are missing or empty; the stored    *)
(* posts are unchanged.                                                    *)
(***************************************************************************)
C11_TransitionNeedsBodyAndTags ==
  [][\A c \in DOMAIN reqs :
       (AdminUpdateReaches(c) /\ TargetStatus(c, {"review", "scheduled", "published"})) =>
          /\ EmptyBody(reqs[c].req.body) =>
               Rejected(c, 400, "Body required for publishing")
          /\ (~EmptyBody(reqs[c].req.body) /\ EmptyTags(reqs[c].req.body)) =>
               Rejected(c, 400, "Select at least one")]_vars

C11_Witness ==
  \E c \in DOMAIN reqs :
    /\ PostAnswered(c, "updateAdminPost", 400)
    /\ reqs[c].res.message = "Select at least one"
    /\ reqs[c].req.body.status = "scheduled"
    /\ \E p \in posts : p._id = reqs[c].req.id /\ p.status = "review" /\ p.tags = TagsPublished

(***************************************************************************)
(* C12.  An update of an existing post with target status scheduled, body  *)
(* and tags present, is answered 400 "Invalid date" with the posts         *)
(* unchanged when scheduledAt is missing or not later than the time of the *)
(* test; it goes on to the store only when scheduledAt is later, and the   *)
(* update then answers 200 "Scheduled" with the post stored as scheduled.  *)
(***************************************************************************)
PostUpdateStep(c, op) ==
  /\ reqs[c].phase = "update" /\ reqs[c].req.op = op
  /\ reqs'[c].phase = "response"

C12_ScheduleNeedsFutureDate ==
  [][\A c \in DOMAIN reqs :
       /\ (/\ AdminUpdateReaches(c) /\ TargetStatus(c, {"scheduled"})
           /\ ~EmptyBody(reqs[c].req.body) /\ ~EmptyTags(reqs[c].req.body)) =>
            LET body == reqs[c].req.body IN
              IF Has(body, "scheduledAt") /\ getTime(body.scheduledAt) > now
              THEN reqs'[c].phase = "update" /\ posts' = posts
              ELSE Rejected(c, 400, "Invalid date")
       /\ (PostUpdateStep(c, "updateAdminPost") /\ TargetStatus(c, {"scheduled"})) =>
            /\ Has(reqs[c].req.body, "scheduledAt")
            /\ Len(reqs[c].req.body.body) >= MinBodyLength =>
                 /\ reqs'[c].res.status = 200
                 /\ reqs'[c].res.message = "Scheduled"
                 /\ \A p \in reqs'[c].res.data : p.status = "scheduled"
                 /\ \E p \in posts' :
                      /\ p._id = reqs[c].req.id
                      /\ p.status = "scheduled"
                      /\ p.scheduledAt = getTime(reqs[c].req.body.scheduledAt)]_vars

C12_Witness ==
  \E c \in DOMAIN reqs :
    /\ PostAnswered(c, "updateAdminPost", 200)
    /\ reqs[c].res.message = "Scheduled"
    /\ now = MaxTime
    /\ \E p \in posts : /\ p._id = reqs[c].req.id /\ p.status = "scheduled"
                         /\ p.scheduledAt = MaxTime + 1

(***************************************************************************)
(* C13.  A successful update that moves a post without publishedAt into    *)
(* status published stores publishedAt = the current time with it, so a    *)
(* stored post that is published has publishedAt.                          *)
(***************************************************************************)
C13_PublishStampsPublishedAt ==
  /\ [][\A c \in DOMAIN reqs :
          (/\ AnswerStep(c)
           /\ reqs[c].phase = "update"
           /\ TargetStatus(c, {"published"})
           /\ reqs'[c].res.status = 200
           /\ \E p \in posts : p._id = reqs[c].req.id /\ ~Has(p, "publishedAt")) =>
             \E p \in posts' :
               /\ p._id = reqs[c].req.id
               /\ p.status = "published"
               /\ Has(p, "publishedAt")
               /\ p.publishedAt = now]_vars
  /\ [](\A p \in posts : p.status = "published" => Has(p, "publishedAt"))

(***************************************************************************)
(* C14.  Once a post has publishedAt, no step changes it: every later      *)
(* state of the post carries the same publishedAt.                         *)
(***************************************************************************)
C14_PublishedAtSetOnce ==
  [][\A p \in posts : \A q \in posts' :
       (p._id = q._id /\ Has(p, "publishedAt")) =>
          (Has(q, "publishedAt") /\ q.publishedAt = p.publishedAt)]_vars

(***************************************************************************)
(* C15.  The status of a stored post becomes scheduled or published only   *)
(* in the update of an actor holding post:schedule or post:publish; an     *)
(* update asking for such a status by an actor without the action is       *)
(* answered 403 naming it, before the handler runs, the posts unchanged.   *)
(***************************************************************************)
ElevatedAction(status) ==
  IF status = "scheduled" THEN "post:schedule" ELSE "post:publish"

C15_ElevatedTransitions ==
  [][\A c \in DOMAIN reqs :
       /\ (/\ FirstStep(c, "updateAdminPost")
           /\ TargetStatus(c, {"scheduled", "published"})
           /\ reqs[c].req.actor \in Roles
           /\ ~can(reqs[c].req.actor, ElevatedAction(reqs[c].req.body.status))) =>
             /\ reqs'[c].phase = "response"
             /\ reqs'[c].res = Forbidden(ElevatedAction(reqs[c].req.body.status))
             /\ posts' = posts
       /\ (AnswerStep(c) /\ reqs[c].phase = "update") =>
            \A p \in posts : \A q \in posts' :
              (/\ p._id = q._id /\ q.status # p.status
               /\ q.status \in {"scheduled", "published"}) =>
                 can(reqs[c].req.actor, ElevatedAction(q.status))]_vars

(***************************************************************************)
(* C16.  A publish request of the content page by a contributor is         *)
(* answered 403 with a message naming post:publish and changes nothing; by *)
(* an editor or an admin it passes the gate and the handler starts, which  *)
(* answers 200, or 404 when there is no page.                              *)
(***************************************************************************)
\* a request for the content-page route op is taken in this step
\* the handler of the content-page route op starts in this step
PageHandlerStarts(op) ==
  CASE op = "publishContentPage" ->
         \E r \in DOMAIN pub : pub[r].pc \in {"idle", "done"} /\ pub'[r].pc = "findOne"
    [] op = "saveContentPage" -> http.phase # "request" /\ http'.phase = "request"
    [] op = "getContentPage" ->
         http.phase # "request" /\ http'.phase = "response" /\ http'.op = "get"

PageGateStep(c, op) ==
  /\ reqs[c].phase # "request"
  /\ reqs'[c].phase \in {"passed", "response"}
  /\ reqs'[c].req.op = op
  /\ reqs'[c] # reqs[c] \/ PageHandlerStarts(op)

C16_PublishNeedsPublishAction ==
  /\ [][\A c \in DOMAIN reqs :
          PageGateStep(c, "publishContentPage") =>
            LET actor == reqs'[c].req.actor IN
              /\ actor = "contributor" =>
                   /\ reqs'[c].phase = "response"
                   /\ reqs'[c].res = Forbidden("post:publish")
                   /\ reqs'[c].res.status = 403
                   /\ UNCHANGED <<pageVars, posts>>
              /\ actor \in {"editor", "admin"} =>
                   /\ reqs'[c].phase = "passed"
                   /\ \E r \in DOMAIN pub : pub'[r].pc = "findOne"
              /\ actor \in Roles =>
                   (reqs'[c].phase = "passed" <=> can(actor, "post:publish"))]_vars
  /\ [][\A r \in DOMAIN pub :
          (pub[r].pc # "done" /\ pub'[r].pc = "done") =>
             \A x \in pub'[r].res :
               /\ x.status \in {200, 404}
               /\ x.status = 404 <=> docs' = {}]_vars

C16_Witness ==
  \E c \in DOMAIN reqs :
    /\ reqs[c].phase = "response"
    /\ reqs[c].req = [op |-> "publishContentPage", actor |-> "contributor"]
    /\ reqs[c].res.status = 403
    /\ \E d \in docs : d.status = "published" /\ d.version = 2
    /\ \E r \in DOMAIN pub : Answered(r, 200)

(***************************************************************************)
(* C17.  A request without a token to any admin route is answered 401      *)
(* "Not authorized, no token" by the gate: whatever its body and whether   *)
(* or not the post or page it addresses exists, nothing is validated,      *)
(* read or written.  The public routes never answer 401.                   *)
(***************************************************************************)
AdminPostOps ==
  {"createAdminPost", "updateAdminPost", "getAdminPosts", "getAdminPost",
   "getPostPreview"}

AdminPageOps == {"saveContentPage", "getContentPage", "publishContentPage"}

C17_AdminNeedsToken ==
  [][\A c \in DOMAIN reqs :
       /\ \A op \in AdminPostOps :
            (FirstStep(c, op) /\ reqs[c].req.actor = "anonymous") =>
               /\ reqs'[c].phase = "response"
               /\ reqs'[c].res = NoToken
               /\ UNCHANGED <<pageVars, posts>>
       /\ \A op \in AdminPageOps :
            (PageGateStep(c, op) /\ reqs'[c].req.actor = "anonymous") =>
               /\ reqs'[c].phase = "response"
               /\ reqs'[c].res = NoToken
               /\ UNCHANGED <<pageVars, posts>>
       /\ FirstStep(c, "getPublicPostBySlug") => reqs'[c].res.status # 401
       /\ (http' # http /\ http'.phase = "response" /\ http'.op = "public") =>
            http'.resp.status # 401]_vars

C17_Witness ==
  \E c \in DOMAIN reqs :
    /\ PostAnswered(c, "updateAdminPost", 401)
    /\ reqs[c].req.actor = "anonymous"
    /\ reqs[c].req.body = [status |-> "archived"]
    /\ \E p \in posts : p._id = reqs[c].req.id
    /\ \E d \in docs : d.status = "published"

(***************************************************************************)
(* C18.  GET /posts/:slug answers 200 exactly when a published post has    *)
(* that slug.  When the slug belongs only to posts of another status the   *)
(* answer is the 404 "Post not found" of a slug no post has, and no post   *)
(* changes, its view count included.                                       *)
(***************************************************************************)
WithSlug(slug) == {p \in posts : p.slug = slug}

C18_SlugReadOnlyPublished ==
  [][\A c \in DOMAIN reqs :
       FirstStep(c, "getPublicPostBySlug") =>
         LET slug == reqs[c].req.slug
             published == {p \in WithSlug(slug) : p.status = "published"} IN
         /\ reqs'[c].phase = "response"
         /\ reqs'[c].res.status = 200 <=> published # {}
         /\ (UrlSafe(slug) /\ published = {}) =>
               /\ reqs'[c].res = Fail(404, "Post not found")
               /\ posts' = posts]_vars

(***************************************************************************)
(* C19.  No read that needs no token (by slug, by id, as a list) returns   *)
(* a post whose status is not published.                                   *)
(***************************************************************************)
PublicReadOps == {"getPublicPostBySlug", "getPost", "getPosts"}

C19_UnpublishedNeverReturned ==
  \A c \in DOMAIN reqs :
    (/\ reqs[c].phase = "response"
     /\ reqs[c].req.op \in PublicReadOps
     /\ reqs[c].res.status = 200) =>
       \A p \in reqs[c].res.data : p.status = "published"

(***************************************************************************)
(* C20.  No two stored posts share a slug: not after two creates with the  *)
(* same slug whose store calls interleave, not after an update that sets   *)
(* a slug or changes a title.                                              *)
(***************************************************************************)
C20_SlugsUnique ==
  \A p \in posts, q \in posts : p.slug = q.slug => p._id = q._id

\* both creates found the slug free; the insert of the second was refused
C20_Witness ==
  \E c \in DOMAIN reqs, d \in DOMAIN reqs :
    /\ PostAnswered(c, "createAdminPost", 201)
    /\ PostAnswered(d, "createAdminPost", 500)
    /\ Has(reqs[c].req.body, "slug") /\ reqs[c].req.body.slug = SlugTest
    /\ Has(reqs[d].req.body, "slug") /\ reqs[d].req.body.slug = SlugTest
    /\ Cardinality(WithSlug(SlugTest)) = 1

(***************************************************************************)
(* C21.  POST /revalidate answers 401 "Invalid secret" whenever the        *)
(* X-Revalidate-Secret header is missing or wrong, whatever the path; with *)
(* the right secret it answers 400 "Invalid request" for a path that is    *)
(* not a string and otherwise 200 with the path, "/" when none is sent.    *)
(***************************************************************************)
SecretOk(req) ==
  /\ Has(req.headers, "x-revalidate-secret")
  /\ req.headers["x-revalidate-secret"] = expectedSecret(req.env)

C21_RevalidateAnswers ==
  \A c \in DOMAIN reqs :
    (reqs[c].phase = "response" /\ reqs[c].req.op = "revalidatePath") =>
      LET req == reqs[c].req
          res == reqs[c].res IN
      IF ~SecretOk(req) THEN res = Fail(401, "Invalid secret")
      ELSE IF Has(req.body, "path") /\ req.body.path.type # "string"
      THEN res = Fail(400, "Invalid request")
      ELSE /\ res.status = 200
           /\ res.path = IF Has(req.body, "path") THEN req.body.path.value ELSE "/"

(***************************************************************************)
(* C22.  Whenever a post leaves the store, the request handled in that     *)
(* step was sent by an actor that holds post:delete.                       *)
(***************************************************************************)
Ids(coll) == {p._id : p \in coll}

C22_DeleteNeedsPermission ==
  [][~(Ids(posts) \subseteq Ids(posts')) =>
       \E c \in DOMAIN reqs :
         /\ reqs[c].phase = "request"
         /\ reqs'[c].phase = "response"
         /\ can(reqs[c].req.actor, "post:delete")]_vars

(***************************************************************************)
(* C23.  A post that enters the store has status draft, whatever the       *)
(* create request carries.                                                 *)
(***************************************************************************)
C23_CreatedAsDraft ==
  [][\A p \in posts' : p._id \notin Ids(posts) => p.status = "draft"]_vars

(***************************************************************************)
(* C24.  The sections and SEO that a publish writes are those the store    *)
(* held immediately before the write, however a save interleaves with the  *)
(* publish.                                                                *)
(***************************************************************************)
Draft(doc) ==
  [sections |-> doc.sections, seo |-> IF Has(doc, "seo") THEN {doc.seo} ELSE {}]

C24_PublishWritesCurrentDraft ==
  [][\A r \in DOMAIN pub :
       UpdateStep(r) =>
         {Draft(d) : d \in findOne(docs')} = {Draft(d) : d \in findOne(docs)}]_vars

(***************************************************************************)
(* C25.  With no save in between, every publish write raises the stored    *)
(* version by exactly 1, and no two publishes that succeeded report the    *)
(* same version.                                                           *)
(***************************************************************************)
C25_PublishIncrementsByOne ==
  /\ [](\A r \in DOMAIN pub, q \in DOMAIN pub :
          (r # q /\ Answered(r, 200) /\ Answered(q, 200)) =>
             The(pub[r].res).data.version # The(pub[q].res).data.version)
  /\ [][\A r \in DOMAIN pub :
          UpdateStep(r) =>
            \A d \in docs, e \in docs' : e.version = d.version + 1]_vars

(***************************************************************************)
(* C26.  Every stored post in status review, scheduled or published has a  *)
(* non-empty body and at least one tag.                                    *)
(***************************************************************************)
C26_EligibleHasBodyAndTags ==
  \A p \in posts :
    p.status \in {"review", "scheduled", "published"} =>
      /\ Len(trim(p.body)) > 0
      /\ Len(p.tags) > 0

(***************************************************************************)
(* C27.  POST /admin/content-page by a contributor is answered 403 by the  *)
(* gate and writes nothing; by an editor it passes the gate and the save   *)
(* starts.                                                                 *)
(***************************************************************************)
C27_ContributorCannotSave ==
  [][\A c \in DOMAIN reqs :
       PageGateStep(c, "saveContentPage") =>
         LET actor == reqs'[c].req.actor IN
           /\ actor = "contributor" =>
                /\ reqs'[c].phase = "response"
                /\ reqs'[c].res.status = 403
                /\ UNCHANGED <<pageVars, posts>>
           /\ actor = "editor" =>
                /\ reqs'[c].phase = "passed"
                /\ http'.phase = "request"]_vars

(***************************************************************************)
(* C28.  An update that changes the title of a post is answered 200 and    *)
(* stores the slug made from the new title, with a numeric suffix when     *)
(* another post holds that slug; an update that changes no title and       *)
(* carries no slug leaves the slug as it was.                              *)
(***************************************************************************)
\* the store call of an update of an existing post executes in this step
UpdateWrites(c) ==
  /\ reqs[c].phase = "update"
  /\ reqs'[c].phase = "response"
  /\ findById(posts, reqs[c].req.id) # {}

C28_SlugFollowsTitle ==
  [][\A c \in DOMAIN reqs :
       UpdateWrites(c) =>
         LET body == reqs[c].req.body
             old == The(findById(posts, reqs[c].req.id)) IN
         IF Truthy(body, "title") /\ body.title # old.title
         THEN /\ reqs'[c].res.status = 200
              /\ \A new \in findById(posts', old._id) :
                   \/ new.slug = SlugFromTitle(body.title)
                   \/ /\ \E p \in posts : p._id # old._id
                                          /\ p.slug = SlugFromTitle(body.title)
                      /\ new.slug = SlugFromTitle(body.title) \o "-" \o ToString(now)
         ELSE ~Has(body, "slug") =>
                \A new \in findById(posts', old._id) : new.slug = old.slug]_vars

(***************************************************************************)
(* C29.  The preconditions of a transition into review, scheduled or       *)
(* published are read from the request, not from the stored post: a        *)
(* request without body is answered 400 "Body required for publishing"     *)
(* although the stored post has a body, one without tags 400 "Select at    *)
(* least one" although the stored post has tags.  The body is tested       *)
(* before the tags, the tags before the schedule date.                     *)
(***************************************************************************)
BadDate(body, t) == ~Has(body, "scheduledAt") \/ getTime(body.scheduledAt) <= t

C29_PreconditionsOnRequest ==
  [][\A c \in DOMAIN reqs :
       (AdminUpdateReaches(c) /\ TargetStatus(c, {"review", "scheduled", "published"})) =>
         LET body == reqs[c].req.body
             stored == The(findById(posts, reqs[c].req.id)) IN
         /\ (~Has(body, "body") /\ Len(trim(stored.body)) > 0) =>
              Rejected(c, 400, "Body required for publishing")
         /\ (~EmptyBody(body) /\ ~Has(body, "tags") /\ Len(stored.tags) > 0) =>
              Rejected(c, 400, "Select at least one")
         /\ (EmptyBody(body) /\ EmptyTags(body)) =>
              reqs'[c].res.message = "Body required for publishing"
         /\ (/\ ~EmptyBody(body) /\ EmptyTags(body)
             /\ body.status = "scheduled" /\ BadDate(body, now)) =>
              reqs'[c].res.message = "Select at least one"]_vars

C29_Witness ==
  \E c \in DOMAIN reqs :
    /\ PostAnswered(c, "updateAdminPost", 400)
    /\ reqs[c].res.message = "Select at least one"
    /\ reqs[c].req.body.status = "scheduled"
    /\ BadDate(reqs[c].req.body, now)
    /\ \E p \in posts : /\ p._id = reqs[c].req.id
                         /\ Len(p.tags) > 0
                         /\ Len(trim(p.body)) > 0

(***************************************************************************)
(* C30.  A request that passes the post:edit gate of PATCH                 *)
(* /admin/posts/:id is never answered 403 "Not authorized to edit this     *)
(* post": an actor that holds post:edit updates, and changes the status    *)
(* of, a post that someone else wrote.                                     *)
(***************************************************************************)
NotOwner == Fail(403, "Not authorized to edit this post")

====
